---- MODULE Spec2Model ----
(***************************************************************************)
(* Synchronized checkpoints (checkpointsync.cpp): the checkpoint state     *)
(* machine, its consistency validation over the block tree, the master's   *)
(* send path and the persistence of the accepted checkpoint.               *)
(***************************************************************************)
EXTENDS Integers, Sequences, FiniteSets, TLC

VARIABLES
    mapBlockIndex,            \* hashes of the blocks known to the block index
    chainActive,              \* hash of the tip of the active chain
    hashSyncCheckpoint,
    hashPendingCheckpoint,
    checkpointMessage,
    checkpointMessagePending,
    hashInvalidCheckpoint,
    pblocktree,               \* [written, durable]: the store's two records
    strMasterPrivKey,
    strCheckpointWarning,
    gArgs,                    \* [enforcecheckpoint, checkpointkey, checkpointdepth]
    relayed,                  \* message relayed to the peers by the last call
    assertFailed,             \* the assert of IsSyncCheckpointTooOld aborted
    last                      \* the last call: [op, arg, ret, store] its hash
                              \* argument, what it returned and how its last store
                              \* access ended; [relayLocked, unlockedWrite, askFor]
                              \* what it did with the lock and with the peer

vars == <<mapBlockIndex, chainActive, hashSyncCheckpoint, hashPendingCheckpoint,
          checkpointMessage, checkpointMessagePending, hashInvalidCheckpoint,
          pblocktree, strMasterPrivKey, strCheckpointWarning, gArgs, relayed,
          assertFailed, last>>

-----------------------------------------------------------------------------
(* The block tree: block b > 1 has parent b \div 2, so every block has two *)
(* possible children and branches diverge at every height.                 *)

NumBlocks == 4
NullHash == 0
Genesis == 1
HardenedCheckpoint == 2
MaxTime == 2
IntBits == 4                  \* the width of int, narrowed to what the heights need

Blocks == 1..NumBlocks
Hashes == Blocks \cup {NullHash}

pprev(b) == IF b = Genesis THEN NullHash ELSE b \div 2

RECURSIVE nHeight(_)
nHeight(b) == IF b = Genesis THEN 0 ELSE 1 + nHeight(pprev(b))

GetBlockTime(b) == nHeight(b)

\* a is b or an ancestor of b
RECURSIVE IsAncestorOrSelf(_, _)
IsAncestorOrSelf(a, b) ==
    IF b = NullHash THEN FALSE
    ELSE IF a = b THEN TRUE
    ELSE IsAncestorOrSelf(a, pprev(b))

StrictAncestor(a, b) == a # b /\ IsAncestorOrSelf(a, b)
Divergent(a, b) == ~IsAncestorOrSelf(a, b) /\ ~IsAncestorOrSelf(b, a)

\* chainActive.Contains(pindex), for the active chain ending in tip
Contains(tip, b) == IsAncestorOrSelf(b, tip)

\* the block indexes a node can hold: genesis, and the parent of every block
WellFormed(mbi) == Genesis \in mbi /\ \A b \in mbi \ {Genesis} : pprev(b) \in mbi
BlockIndexes == {mbi \in SUBSET Blocks : WellFormed(mbi)}

-----------------------------------------------------------------------------
(* Keys, signatures and the message codec.                                 *)

PrivKeys == {"master", "other"}
PubKeyOf(k) == <<"pub", k>>
strMasterPubKey == PubKeyOf("master")
NoKey == <<>>

\* sMsg << (CUnsignedSyncCheckpoint)checkpoint : version, then the hash
Encode(h) == <<1, h>>
Decode(bytes) == bytes[2]

NoSig == [key |-> "", msg |-> <<>>]
Sign(k, bytes) == [key |-> k, msg |-> bytes]
Verify(pub, bytes, sig) == sig.key # "" /\ PubKeyOf(sig.key) = pub /\ sig.msg = bytes

NullMsg == [hashCheckpoint |-> NullHash, vchMsg |-> <<>>, vchSig |-> NoSig]
IsNull(m) == m.hashCheckpoint = NullHash

\* messages as they come off the wire: hashCheckpoint is not transmitted
WireMsg(h, k, g) ==
    [hashCheckpoint |-> NullHash, vchMsg |-> Encode(h), vchSig |-> Sign(k, Encode(g))]
WireMsgs ==
    {WireMsg(h, k, h) : h \in Blocks, k \in PrivKeys}
        \cup {WireMsg(h, "master", Genesis) : h \in Blocks}

DbOutcomes == {"ok", "writefail", "syncfail"}

-----------------------------------------------------------------------------
(* The program state as a record, so that a call can be composed of the    *)
(* calls it makes.                                                         *)

State ==
    [hashSyncCheckpoint |-> hashSyncCheckpoint,
     hashPendingCheckpoint |-> hashPendingCheckpoint,
     checkpointMessage |-> checkpointMessage,
     checkpointMessagePending |-> checkpointMessagePending,
     hashInvalidCheckpoint |-> hashInvalidCheckpoint,
     pblocktree |-> pblocktree,
     strMasterPrivKey |-> strMasterPrivKey,
     strCheckpointWarning |-> strCheckpointWarning,
     gArgs |-> gArgs,
     locked |-> FALSE,          \* cs_hashSyncCheckpoint is held by the caller
     relayed |-> NullMsg,
     relayLocked |-> FALSE,     \* the call relayed while it held the lock
     unlockedWrite |-> FALSE,   \* the call wrote checkpoint state without the lock
     askFor |-> NullHash,       \* the block the call asked its peer for
     store |-> "none",
     ret |-> FALSE]

Becomes(s, op, arg) ==
    /\ hashSyncCheckpoint' = s.hashSyncCheckpoint
    /\ hashPendingCheckpoint' = s.hashPendingCheckpoint
    /\ checkpointMessage' = s.checkpointMessage
    /\ checkpointMessagePending' = s.checkpointMessagePending
    /\ hashInvalidCheckpoint' = s.hashInvalidCheckpoint
    /\ pblocktree' = s.pblocktree
    /\ strMasterPrivKey' = s.strMasterPrivKey
    /\ strCheckpointWarning' = s.strCheckpointWarning
    /\ gArgs' = s.gArgs
    /\ relayed' = s.relayed
    /\ last' = [op |-> op, arg |-> arg, ret |-> s.ret, store |-> s.store,
                relayLocked |-> s.relayLocked, unlockedWrite |-> s.unlockedWrite,
                askFor |-> s.askFor]

\* LOCK(cs_hashSyncCheckpoint), and the end of the scope that holds it
Lock(s) == [s EXCEPT !.locked = TRUE]
Unlock(s) == [s EXCEPT !.locked = FALSE]

\* a write to a field of the checkpoint state, with or without the lock
SharedWrite(s) == [s EXCEPT !.unlockedWrite = @ \/ ~s.locked]

\* walk pindex back through pprev until its height is at most h
RECURSIVE TraceBack(_, _)
TraceBack(pindex, h) ==
    IF pindex # NullHash /\ nHeight(pindex) > h
    THEN TraceBack(pprev(pindex), h)
    ELSE pindex

\* the branch test left out: heights alone decide
ValidateSyncCheckpoint_NoConflict(s, mbi, hashCheckpoint) ==
    IF s.hashSyncCheckpoint \notin mbi \/ hashCheckpoint \notin mbi
    THEN [s EXCEPT !.ret = FALSE]
    ELSE [s EXCEPT !.ret = nHeight(hashCheckpoint) > nHeight(s.hashSyncCheckpoint)]

\* the older-checkpoint branch compares with the current hash, as the other does
ValidateSyncCheckpoint_WrongCompare(s, mbi, hashCheckpoint) ==
    IF s.hashSyncCheckpoint \notin mbi THEN [s EXCEPT !.ret = FALSE]
    ELSE IF hashCheckpoint \notin mbi THEN [s EXCEPT !.ret = FALSE]
    ELSE IF nHeight(hashCheckpoint) <= nHeight(s.hashSyncCheckpoint)
    THEN LET pindex == TraceBack(s.hashSyncCheckpoint, nHeight(hashCheckpoint)) IN
         IF pindex = NullHash THEN [s EXCEPT !.ret = FALSE]
         ELSE IF pindex # s.hashSyncCheckpoint
         THEN [SharedWrite(s) EXCEPT !.hashInvalidCheckpoint = hashCheckpoint,
                                   !.ret = FALSE]
         ELSE [s EXCEPT !.ret = FALSE]
    ELSE LET pindex == TraceBack(hashCheckpoint, nHeight(s.hashSyncCheckpoint)) IN
         IF pindex = NullHash THEN [s EXCEPT !.ret = FALSE]
         ELSE IF pindex # s.hashSyncCheckpoint
         THEN [SharedWrite(s) EXCEPT !.hashInvalidCheckpoint = hashCheckpoint,
                                   !.ret = FALSE]
         ELSE [s EXCEPT !.ret = TRUE]

\* < for <= in the height test: the equal height goes to the descendant branch
ValidateSyncCheckpoint_StrictLess(s, mbi, hashCheckpoint) ==
    IF s.hashSyncCheckpoint \notin mbi THEN [s EXCEPT !.ret = FALSE]
    ELSE IF hashCheckpoint \notin mbi THEN [s EXCEPT !.ret = FALSE]
    ELSE IF nHeight(hashCheckpoint) < nHeight(s.hashSyncCheckpoint)
    THEN LET pindex == TraceBack(s.hashSyncCheckpoint, nHeight(hashCheckpoint)) IN
         IF pindex = NullHash THEN [s EXCEPT !.ret = FALSE]
         ELSE IF pindex # hashCheckpoint
         THEN [SharedWrite(s) EXCEPT !.hashInvalidCheckpoint = hashCheckpoint,
                                   !.ret = FALSE]
         ELSE [s EXCEPT !.ret = FALSE]
    ELSE LET pindex == TraceBack(hashCheckpoint, nHeight(s.hashSyncCheckpoint)) IN
         IF pindex = NullHash THEN [s EXCEPT !.ret = FALSE]
         ELSE IF pindex # s.hashSyncCheckpoint
         THEN [SharedWrite(s) EXCEPT !.hashInvalidCheckpoint = hashCheckpoint,
                                   !.ret = FALSE]
         ELSE [s EXCEPT !.ret = TRUE]

ValidateSyncCheckpoint(s, mbi, hashCheckpoint) ==
    IF s.hashSyncCheckpoint \notin mbi THEN [s EXCEPT !.ret = FALSE]
    ELSE IF hashCheckpoint \notin mbi THEN [s EXCEPT !.ret = FALSE]
    ELSE IF nHeight(hashCheckpoint) <= nHeight(s.hashSyncCheckpoint)
    THEN LET pindex == TraceBack(s.hashSyncCheckpoint, nHeight(hashCheckpoint)) IN
         IF pindex = NullHash THEN [s EXCEPT !.ret = FALSE]
         ELSE IF pindex # hashCheckpoint
         THEN [SharedWrite(s) EXCEPT !.hashInvalidCheckpoint = hashCheckpoint,
                                   !.ret = FALSE]
         ELSE [s EXCEPT !.ret = FALSE]
    ELSE LET pindex == TraceBack(hashCheckpoint, nHeight(s.hashSyncCheckpoint)) IN
         IF pindex = NullHash THEN [s EXCEPT !.ret = FALSE]
         ELSE IF pindex # s.hashSyncCheckpoint
         THEN [SharedWrite(s) EXCEPT !.hashInvalidCheckpoint = hashCheckpoint,
                                   !.ret = FALSE]
         ELSE [s EXCEPT !.ret = TRUE]

\* pblocktree->Sync(): every record written so far becomes durable
Sync(db) == [db EXCEPT !.durable = db.written]

\* hashSyncCheckpoint assigned before the commit
WriteSyncCheckpoint_EarlyAssign(s, hashCheckpoint, f) ==
    IF f = "writefail" THEN [s EXCEPT !.store = f, !.ret = FALSE]
    ELSE LET db == [s.pblocktree EXCEPT !.written.cp = hashCheckpoint] IN
         IF f = "syncfail"
         THEN [SharedWrite(s) EXCEPT
                        !.pblocktree = db, !.store = f,
                        !.hashSyncCheckpoint = hashCheckpoint, !.ret = FALSE]
         ELSE [SharedWrite(s) EXCEPT
                        !.pblocktree = Sync(db),
                        !.store = f,
                        !.hashSyncCheckpoint = hashCheckpoint,
                        !.ret = TRUE]

WriteSyncCheckpoint(s, hashCheckpoint, f) ==
    IF f = "writefail" THEN [s EXCEPT !.store = f, !.ret = FALSE]
    ELSE LET db == [s.pblocktree EXCEPT !.written.cp = hashCheckpoint] IN
         IF f = "syncfail" THEN [s EXCEPT !.pblocktree = db, !.store = f, !.ret = FALSE]
         ELSE [SharedWrite(s) EXCEPT
                        !.pblocktree = Sync(db),
                        !.store = f,
                        !.hashSyncCheckpoint = hashCheckpoint,
                        !.ret = TRUE]

\* the signature is checked against whatever key made it
CheckSignature_AnyKey(m) == m.vchSig.key # "" /\ m.vchSig.msg = m.vchMsg

CheckSignature(m) == Verify(strMasterPubKey, m.vchMsg, m.vchSig)

\* the message after CheckSignature has unserialized vchMsg into it
Unserialized(m) == [m EXCEPT !.hashCheckpoint = Decode(m.vchMsg)]

\* a rejected checkpoint also clears the pending one
ProcessSyncCheckpoint_ClearOnReject(s, mbi, m, f) ==
    IF ~CheckSignature(m) THEN [s EXCEPT !.ret = FALSE]
    ELSE LET this == Unserialized(m)
             hashCheckpoint == this.hashCheckpoint
             l == Lock(s) IN
         IF hashCheckpoint \notin mbi
         THEN Unlock([SharedWrite(l) EXCEPT !.hashPendingCheckpoint = hashCheckpoint,
                                            !.checkpointMessagePending = this,
                                            !.ret = FALSE])
         ELSE LET v == ValidateSyncCheckpoint(l, mbi, hashCheckpoint) IN
              IF ~v.ret
              THEN Unlock([SharedWrite(v) EXCEPT !.hashPendingCheckpoint = NullHash,
                                                 !.checkpointMessagePending = NullMsg])
              ELSE LET w == WriteSyncCheckpoint(v, hashCheckpoint, f) IN
                   IF ~w.ret THEN Unlock(w)
                   ELSE Unlock([SharedWrite(w) EXCEPT
                                   !.checkpointMessage = this,
                                   !.hashPendingCheckpoint = NullHash,
                                   !.checkpointMessagePending = NullMsg,
                                   !.ret = TRUE])

\* the peer pfrom is asked for nothing (askFor stays null): the body of
\* if (pfrom) is commented out
ProcessSyncCheckpoint(s, mbi, m, f) ==
    IF ~CheckSignature(m) THEN [s EXCEPT !.ret = FALSE]
    ELSE LET this == Unserialized(m)
             hashCheckpoint == this.hashCheckpoint
             l == Lock(s) IN
         IF hashCheckpoint \notin mbi
         THEN Unlock([SharedWrite(l) EXCEPT !.hashPendingCheckpoint = hashCheckpoint,
                                            !.checkpointMessagePending = this,
                                            !.ret = FALSE])
         ELSE LET v == ValidateSyncCheckpoint(l, mbi, hashCheckpoint) IN
              IF ~v.ret
              THEN Unlock(v)
              ELSE LET w == WriteSyncCheckpoint(v, hashCheckpoint, f) IN
                   IF ~w.ret THEN Unlock(w)
                   ELSE Unlock([SharedWrite(w) EXCEPT
                                   !.checkpointMessage = this,
                                   !.hashPendingCheckpoint = NullHash,
                                   !.checkpointMessagePending = NullMsg,
                                   !.ret = TRUE])

\* a pending checkpoint that fails validation is kept
AcceptPendingSyncCheckpoint_KeepOnReject(s, mbi, f) ==
    LET l == Lock(s) IN
    IF l.hashPendingCheckpoint # NullHash /\ l.hashPendingCheckpoint \in mbi
    THEN LET v == ValidateSyncCheckpoint(l, mbi, l.hashPendingCheckpoint) IN
         IF ~v.ret
         THEN Unlock([v EXCEPT !.ret = FALSE])
         ELSE LET w == WriteSyncCheckpoint(v, v.hashPendingCheckpoint, f) IN
              IF ~w.ret THEN Unlock(w)
              ELSE Unlock([SharedWrite(w) EXCEPT
                              !.hashPendingCheckpoint = NullHash,
                              !.checkpointMessage = w.checkpointMessagePending,
                              !.checkpointMessagePending = NullMsg,
                              !.relayed = w.checkpointMessagePending,
                              !.relayLocked = w.locked /\ ~IsNull(w.checkpointMessagePending),
                              !.ret = TRUE])
    ELSE Unlock([l EXCEPT !.ret = FALSE])

\* the pending checkpoint is promoted without being validated
AcceptPendingSyncCheckpoint_NoValidate(s, mbi, f) ==
    LET l == Lock(s) IN
    IF l.hashPendingCheckpoint # NullHash /\ l.hashPendingCheckpoint \in mbi
    THEN LET w == WriteSyncCheckpoint(l, l.hashPendingCheckpoint, f) IN
         IF ~w.ret THEN Unlock(w)
         ELSE Unlock([SharedWrite(w) EXCEPT
                         !.hashPendingCheckpoint = NullHash,
                         !.checkpointMessage = w.checkpointMessagePending,
                         !.checkpointMessagePending = NullMsg,
                         !.relayed = w.checkpointMessagePending,
                         !.relayLocked = w.locked /\ ~IsNull(w.checkpointMessagePending),
                         !.ret = TRUE])
    ELSE Unlock([l EXCEPT !.ret = FALSE])

AcceptPendingSyncCheckpoint(s, mbi, f) ==
    LET l == Lock(s) IN
    IF l.hashPendingCheckpoint # NullHash /\ l.hashPendingCheckpoint \in mbi
    THEN LET v == ValidateSyncCheckpoint(l, mbi, l.hashPendingCheckpoint) IN
         IF ~v.ret
         THEN Unlock([SharedWrite(v) EXCEPT !.hashPendingCheckpoint = NullHash,
                                            !.checkpointMessagePending = NullMsg,
                                            !.ret = FALSE])
         ELSE LET w == WriteSyncCheckpoint(v, v.hashPendingCheckpoint, f) IN
              IF ~w.ret THEN Unlock(w)
              ELSE Unlock([SharedWrite(w) EXCEPT
                              !.hashPendingCheckpoint = NullHash,
                              !.checkpointMessage = w.checkpointMessagePending,
                              !.checkpointMessagePending = NullMsg,
                              !.relayed = w.checkpointMessagePending,
                              !.relayLocked = w.locked /\ ~IsNull(w.checkpointMessagePending),
                              !.ret = TRUE])
    ELSE Unlock([l EXCEPT !.ret = FALSE])

\* the hardened checkpoint is written whether or not its block is known
ResetSyncCheckpoint_AlwaysHardened(s, mbi, tip, f) ==
    LET hash == HardenedCheckpoint
        l == Lock(s)
        p == IF hash \in mbi THEN l
             ELSE [SharedWrite(l) EXCEPT !.hashPendingCheckpoint = hash,
                                         !.checkpointMessagePending = NullMsg]
    IN  Unlock(WriteSyncCheckpoint(p, hash, f))

\* the unknown hardened checkpoint is not kept as pending
ResetSyncCheckpoint_NoPending(s, mbi, tip, f) ==
    Unlock(WriteSyncCheckpoint(Lock(s),
        IF HardenedCheckpoint \in mbi /\ Contains(tip, HardenedCheckpoint)
        THEN HardenedCheckpoint ELSE Genesis, f))

\* the hardened checkpoint is written when its block is known, on the active
\* chain or not
ResetSyncCheckpoint_IgnoreActive(s, mbi, tip, f) ==
    LET hash == HardenedCheckpoint
        l == Lock(s)
        p == IF hash \in mbi THEN l
             ELSE [SharedWrite(l) EXCEPT !.hashPendingCheckpoint = hash,
                                         !.checkpointMessagePending = NullMsg]
    IN  Unlock(WriteSyncCheckpoint(p, IF hash \in mbi THEN hash ELSE Genesis, f))

ResetSyncCheckpoint(s, mbi, tip, f) ==
    LET hash == HardenedCheckpoint
        l == Lock(s)
        p == IF hash \in mbi THEN l
             ELSE [SharedWrite(l) EXCEPT !.hashPendingCheckpoint = hash,
                                         !.checkpointMessagePending = NullMsg]
    IN  Unlock(WriteSyncCheckpoint(p,
            IF hash \in mbi /\ Contains(tip, hash) THEN hash ELSE Genesis, f))

CheckCheckpointPubKey(s, mbi, tip, fKey, f) ==
    IF s.pblocktree.written.key = NoKey \/ s.pblocktree.written.key # strMasterPubKey
    THEN IF fKey = "writefail" THEN [s EXCEPT !.store = fKey, !.ret = FALSE]
         ELSE LET db == [s.pblocktree EXCEPT !.written.key = strMasterPubKey] IN
              IF fKey = "syncfail"
              THEN [s EXCEPT !.pblocktree = db, !.store = fKey, !.ret = FALSE]
              ELSE ResetSyncCheckpoint([s EXCEPT !.pblocktree = Sync(db)], mbi, tip, f)
    ELSE [s EXCEPT !.ret = TRUE]

\* strPrivKey is "invalid" (does not decode to a key in range) or a key
SetCheckpointPrivKey(s, strPrivKey, signOk) ==
    IF strPrivKey \notin PrivKeys THEN [s EXCEPT !.ret = FALSE]
    ELSE IF ~signOk THEN [s EXCEPT !.ret = FALSE]
    ELSE [s EXCEPT !.strMasterPrivKey = strPrivKey, !.ret = TRUE]

\* the checkpoint is relayed whatever ProcessSyncCheckpoint returned
SendSyncCheckpoint_RelayAnyway(s, mbi, hashCheckpoint, signOk, f) ==
    IF s.strMasterPrivKey = "" THEN [s EXCEPT !.ret = FALSE]
    ELSE IF s.strMasterPrivKey \notin PrivKeys THEN [s EXCEPT !.ret = FALSE]
    ELSE IF ~signOk THEN [s EXCEPT !.ret = FALSE]
    ELSE LET checkpoint == [hashCheckpoint |-> hashCheckpoint,
                            vchMsg |-> Encode(hashCheckpoint),
                            vchSig |-> Sign(s.strMasterPrivKey, Encode(hashCheckpoint))]
             r == ProcessSyncCheckpoint(s, mbi, checkpoint, f)
         IN  [r EXCEPT !.relayed = Unserialized(checkpoint)]

SendSyncCheckpoint(s, mbi, hashCheckpoint, signOk, f) ==
    IF s.strMasterPrivKey = "" THEN [s EXCEPT !.ret = FALSE]
    ELSE IF s.strMasterPrivKey \notin PrivKeys THEN [s EXCEPT !.ret = FALSE]
    ELSE IF ~signOk THEN [s EXCEPT !.ret = FALSE]
    ELSE LET checkpoint == [hashCheckpoint |-> hashCheckpoint,
                            vchMsg |-> Encode(hashCheckpoint),
                            vchSig |-> Sign(s.strMasterPrivKey, Encode(hashCheckpoint))]
             r == ProcessSyncCheckpoint(s, mbi, checkpoint, f)
         IN  IF ~r.ret THEN r
             ELSE [r EXCEPT !.relayed = Unserialized(checkpoint),
                            !.relayLocked = r.locked,
                            !.ret = TRUE]

\* gArgs.GetBoolArg: the default when the argument is not set, else its value
GetBoolArg(v, fDefault) == IF v = "unset" THEN fDefault ELSE v # "0"

IsSyncCheckpointEnforced(s) ==
    GetBoolArg(s.gArgs.enforcecheckpoint, TRUE) \/ s.gArgs.checkpointkey

\* the warning is cleared under the lock
SetCheckpointEnforce_Locked(s, fEnforce) ==
    LET l == Lock(s)
        w == IF fEnforce THEN [SharedWrite(l) EXCEPT !.strCheckpointWarning = ""] ELSE l
    IN  Unlock([w EXCEPT !.gArgs.enforcecheckpoint = IF fEnforce THEN "1" ELSE "0"])

SetCheckpointEnforce(s, fEnforce) ==
    LET w == IF fEnforce THEN [SharedWrite(s) EXCEPT !.strCheckpointWarning = ""] ELSE s
    IN  [w EXCEPT !.gArgs.enforcecheckpoint = IF fEnforce THEN "1" ELSE "0"]

\* pfrom: the call was given a peer
AskForPendingSyncCheckpoint(s, mbi, pfrom) ==
    LET l == Lock(s) IN
    IF pfrom /\ l.hashPendingCheckpoint # NullHash /\ l.hashPendingCheckpoint \notin mbi
    THEN Unlock([l EXCEPT !.askFor = l.hashPendingCheckpoint])
    ELSE Unlock(l)

\* int: IntBits wide, two's complement
IntMax == 2 ^ (IntBits - 1) - 1
IntMin == -(2 ^ (IntBits - 1))
\* (int) of a 64-bit value
ToInt(x) == ((x - IntMin) % (2 ^ IntBits)) + IntMin

\* pindex->nHeight + depth > Tip()->nHeight: the sum of two ints overflows
\* outside IntMin..IntMax, and the test can then come out either way
DepthTest(h, depth, tipHeight) ==
    IF h + depth > IntMax \/ h + depth < IntMin THEN BOOLEAN
    ELSE {h + depth > tipHeight}

\* the hashes the walk back from pindex can return
RECURSIVE SearchBackward(_, _, _)
SearchBackward(pindex, depth, tip) ==
    IF pprev(pindex) = NullHash THEN {pindex}
    ELSE UNION {IF c THEN SearchBackward(pprev(pindex), depth, tip) ELSE {pindex} :
                   c \in DepthTest(nHeight(pindex), depth, nHeight(tip))}

\* >= for > in the depth test: the walk goes one block too far
AutoSelectSyncCheckpoint_OneTooFar(args, tip) ==
    LET depth == ToInt(args.checkpointdepth)
        RECURSIVE Back(_)
        Back(pindex) ==
            IF pprev(pindex) = NullHash THEN {pindex}
            ELSE IF nHeight(pindex) + depth >= nHeight(tip) THEN Back(pprev(pindex))
            ELSE {pindex}
    IN  Back(tip)

AutoSelectSyncCheckpoint(args, tip) ==
    SearchBackward(tip, ToInt(args.checkpointdepth), tip)

-----------------------------------------------------------------------------
(* The calls as actions.                                                   *)

Env == <<mapBlockIndex, chainActive>>

Process(m, f) ==
    /\ ~assertFailed
    /\ Becomes(ProcessSyncCheckpoint(State, mapBlockIndex, m, f), "Process", Decode(m.vchMsg))
    /\ UNCHANGED <<Env, assertFailed>>

AcceptPending(f) ==
    /\ ~assertFailed
    /\ Becomes(AcceptPendingSyncCheckpoint(State, mapBlockIndex, f),
               "AcceptPending", NullHash)
    /\ UNCHANGED <<Env, assertFailed>>

Reset(f) ==
    /\ ~assertFailed
    /\ Becomes(ResetSyncCheckpoint(State, mapBlockIndex, chainActive, f), "Reset", NullHash)
    /\ UNCHANGED <<Env, assertFailed>>

CheckPubKey(fKey, f) ==
    /\ ~assertFailed
    /\ Becomes(CheckCheckpointPubKey(State, mapBlockIndex, chainActive, fKey, f),
               "CheckPubKey", NullHash)
    /\ UNCHANGED <<Env, assertFailed>>

SetPrivKey(k, signOk) ==
    /\ ~assertFailed
    /\ Becomes(SetCheckpointPrivKey(State, k, signOk), "SetPrivKey", NullHash)
    /\ UNCHANGED <<Env, assertFailed>>

Send(h, signOk, f) ==
    /\ ~assertFailed
    /\ Becomes(SendSyncCheckpoint(State, mapBlockIndex, h, signOk, f), "Send", h)
    /\ UNCHANGED <<Env, assertFailed>>

IsSyncCheckpointTooOld(nSeconds, now) ==
    /\ ~assertFailed
    /\ IF hashSyncCheckpoint \notin mapBlockIndex
       THEN /\ assertFailed' = TRUE
            /\ Becomes(State, "IsTooOld", NullHash)
       ELSE /\ assertFailed' = FALSE
            /\ Becomes([State EXCEPT
                   !.ret = GetBlockTime(hashSyncCheckpoint) + nSeconds < now],
                   "IsTooOld", NullHash)
    /\ UNCHANGED Env

SetEnforce(fEnforce) ==
    /\ ~assertFailed
    /\ Becomes(SetCheckpointEnforce(State, fEnforce), "SetEnforce",
               IF fEnforce THEN 1 ELSE 0)
    /\ UNCHANGED <<Env, assertFailed>>

IsEnforced ==
    /\ ~assertFailed
    /\ Becomes([State EXCEPT !.ret = IsSyncCheckpointEnforced(State)],
               "IsEnforced", NullHash)
    /\ UNCHANGED <<Env, assertFailed>>

\* a warning is raised (by the code that checks blocks against the checkpoint)
Warn ==
    /\ ~assertFailed
    /\ Becomes([State EXCEPT !.strCheckpointWarning = "warning"], "Warn", NullHash)
    /\ UNCHANGED <<Env, assertFailed>>

AskForPending(pfrom) ==
    /\ ~assertFailed
    /\ Becomes(AskForPendingSyncCheckpoint(State, mapBlockIndex, pfrom),
               "AskForPending", NullHash)
    /\ UNCHANGED <<Env, assertFailed>>

\* the hash returned is last.arg
AutoSelect ==
    /\ ~assertFailed
    /\ \E hash \in AutoSelectSyncCheckpoint(gArgs, chainActive) :
          Becomes([State EXCEPT !.ret = TRUE], "AutoSelect", hash)
    /\ UNCHANGED <<Env, assertFailed>>

\* the chain selection: the active chain moves to a block that is higher
\* than its tip, and stays where it is otherwise
BestChain(tip, b) == IF nHeight(b) > nHeight(tip) THEN b ELSE tip

\* a block is added to the index (its parent is there), the active chain is
\* selected again, and the pending checkpoint is looked at again
BlockArrive(b, f) ==
    /\ ~assertFailed
    /\ b \in Blocks \ mapBlockIndex
    /\ pprev(b) \in mapBlockIndex
    /\ mapBlockIndex' = mapBlockIndex \cup {b}
    /\ chainActive' = BestChain(chainActive, b)
    /\ Becomes(AcceptPendingSyncCheckpoint(State, mapBlockIndex \cup {b}, f),
               "BlockArrive", b)
    /\ UNCHANGED assertFailed

NoCall == [op |-> "", arg |-> NullHash, ret |-> FALSE, store |-> "none",
           relayLocked |-> FALSE, unlockedWrite |-> FALSE, askFor |-> NullHash]

\* no -enforcecheckpoint and no -checkpointkey on the command line
NoArgs == [enforcecheckpoint |-> "unset", checkpointkey |-> FALSE, checkpointdepth |-> -1]

Init ==
    /\ mapBlockIndex = {Genesis}
    /\ chainActive = Genesis
    /\ hashSyncCheckpoint = NullHash
    /\ hashPendingCheckpoint = NullHash
    /\ checkpointMessage = NullMsg
    /\ checkpointMessagePending = NullMsg
    /\ hashInvalidCheckpoint = NullHash
    /\ pblocktree = [written |-> [cp |-> NullHash, key |-> NoKey],
                     durable |-> [cp |-> NullHash, key |-> NoKey]]
    /\ strMasterPrivKey = ""
    /\ strCheckpointWarning = ""
    /\ gArgs = NoArgs
    /\ relayed = NullMsg
    /\ assertFailed = FALSE
    /\ last = NoCall

\* the store's outcome is drawn only in the calls that get as far as the store
StoreOutcomes(reached) == IF reached THEN DbOutcomes ELSE {"ok"}
ProcessWrites(m) == ProcessSyncCheckpoint(State, mapBlockIndex, m, "ok").ret
AcceptWrites(mbi) == AcceptPendingSyncCheckpoint(State, mbi, "ok").ret
KeyDiffers == pblocktree.written.key # strMasterPubKey

Next ==
    \/ \E m \in WireMsgs : \E f \in StoreOutcomes(ProcessWrites(m)) : Process(m, f)
    \/ \E f \in StoreOutcomes(AcceptWrites(mapBlockIndex)) : AcceptPending(f)
    \/ \E f \in DbOutcomes : Reset(f)
    \/ \E fKey \in StoreOutcomes(KeyDiffers) :
          \E f \in StoreOutcomes(KeyDiffers /\ fKey = "ok") : CheckPubKey(fKey, f)
    \/ \E nSeconds \in 0..1, now \in 0..MaxTime : IsSyncCheckpointTooOld(nSeconds, now)
    \/ \E pfrom \in BOOLEAN : AskForPending(pfrom)
    \/ \E b \in Blocks \ mapBlockIndex :
          \E f \in StoreOutcomes(AcceptWrites(mapBlockIndex \cup {b})) :
             BlockArrive(b, f)

Spec == Init /\ [][Next]_vars

\* the checkpoint master: it resets at startup, is given a key, sees blocks
\* arrive and sends checkpoints
SendWrites(h) == SendSyncCheckpoint(State, mapBlockIndex, h, TRUE, "ok").ret

NextSend ==
    \/ \E k \in PrivKeys \cup {"invalid"}, signOk \in BOOLEAN : SetPrivKey(k, signOk)
    \/ \E h \in Blocks, signOk \in BOOLEAN :
          \E f \in StoreOutcomes(signOk /\ SendWrites(h)) : Send(h, signOk, f)
    \/ \E f \in DbOutcomes : Reset(f)
    \/ \E b \in Blocks \ mapBlockIndex :
          \E f \in StoreOutcomes(AcceptWrites(mapBlockIndex \cup {b})) :
             BlockArrive(b, f)

SpecSend == Init /\ [][NextSend]_vars

-----------------------------------------------------------------------------
(* The enforcement policy: every setting of the two arguments, the key     *)
(* given at any time, enforcement switched on and off.                     *)

InitEnforce ==
    /\ mapBlockIndex = {Genesis}
    /\ chainActive = Genesis
    /\ hashSyncCheckpoint = NullHash
    /\ hashPendingCheckpoint = NullHash
    /\ checkpointMessage = NullMsg
    /\ checkpointMessagePending = NullMsg
    /\ hashInvalidCheckpoint = NullHash
    /\ pblocktree = [written |-> [cp |-> NullHash, key |-> NoKey],
                     durable |-> [cp |-> NullHash, key |-> NoKey]]
    /\ strMasterPrivKey = ""
    /\ strCheckpointWarning = ""
    /\ \E e \in {"unset", "0", "1"}, k \in BOOLEAN :
          gArgs = [NoArgs EXCEPT !.enforcecheckpoint = e, !.checkpointkey = k]
    /\ relayed = NullMsg
    /\ assertFailed = FALSE
    /\ last = NoCall

NextEnforce ==
    \/ \E fEnforce \in BOOLEAN : SetEnforce(fEnforce)
    \/ IsEnforced
    \/ Warn
    \/ \E k \in PrivKeys \cup {"invalid"}, signOk \in BOOLEAN : SetPrivKey(k, signOk)

SpecEnforce == InitEnforce /\ [][NextEnforce]_vars

-----------------------------------------------------------------------------
(* AutoSelectSyncCheckpoint on its own: every well-formed block index,     *)
(* every tip in it, every depth.                                           *)

\* -checkpointdepth: not given (-1), or any of the values an int holds and
\* the first ones it does not
Depths == -1 .. (2 ^ IntBits)

InitAutoSelect ==
    /\ mapBlockIndex \in BlockIndexes
    /\ chainActive \in mapBlockIndex
    /\ hashSyncCheckpoint = NullHash
    /\ hashPendingCheckpoint = NullHash
    /\ checkpointMessage = NullMsg
    /\ checkpointMessagePending = NullMsg
    /\ hashInvalidCheckpoint = NullHash
    /\ pblocktree = [written |-> [cp |-> NullHash, key |-> NoKey],
                     durable |-> [cp |-> NullHash, key |-> NoKey]]
    /\ strMasterPrivKey = ""
    /\ strCheckpointWarning = ""
    /\ \E d \in Depths : gArgs = [NoArgs EXCEPT !.checkpointdepth = d]
    /\ relayed = NullMsg
    /\ assertFailed = FALSE
    /\ last = NoCall

NextAutoSelect == AutoSelect

SpecAutoSelect == InitAutoSelect /\ [][NextAutoSelect]_vars

-----------------------------------------------------------------------------
(* ValidateSyncCheckpoint on its own: every well-formed block index, every *)
(* current checkpoint in it, every candidate.                              *)

Validate(h) ==
    /\ Becomes(Unlock(ValidateSyncCheckpoint(Lock(State), mapBlockIndex, h)),
               "Validate", h)
    /\ UNCHANGED <<Env, assertFailed>>

InitValidate ==
    /\ mapBlockIndex \in BlockIndexes
    /\ chainActive = Genesis
    /\ hashSyncCheckpoint \in mapBlockIndex \cup {NullHash}
    /\ hashPendingCheckpoint = NullHash
    /\ checkpointMessage = NullMsg
    /\ checkpointMessagePending = NullMsg
    /\ hashInvalidCheckpoint \in Hashes
    /\ pblocktree = [written |-> [cp |-> hashSyncCheckpoint, key |-> strMasterPubKey],
                     durable |-> [cp |-> hashSyncCheckpoint, key |-> strMasterPubKey]]
    /\ strMasterPrivKey = ""
    /\ strCheckpointWarning = ""
    /\ gArgs = NoArgs
    /\ relayed = NullMsg
    /\ assertFailed = FALSE
    /\ last = NoCall

NextValidate == \E h \in Blocks : Validate(h)

SpecValidate == InitValidate /\ [][NextValidate]_vars

-----------------------------------------------------------------------------
(* ValidateSyncCheckpoint: ancestors and divergent branches.               *)

BothKnown(a, b) == a \in mapBlockIndex /\ b \in mapBlockIndex

\* C1: for known blocks A, B with B a strict ancestor of A, validating
\* candidate B against current checkpoint A returns false and leaves
\* hashInvalidCheckpoint as it was (IgnoreOlder), and validating candidate A
\* against current checkpoint B returns true (Accept).
C1_AncestorOrder ==
    [][(last'.op = "Validate" /\ BothKnown(last'.arg, hashSyncCheckpoint)) =>
          /\ StrictAncestor(last'.arg, hashSyncCheckpoint) =>
                (~last'.ret /\ hashInvalidCheckpoint' = hashInvalidCheckpoint)
          /\ StrictAncestor(hashSyncCheckpoint, last'.arg) =>
                (last'.ret /\ hashInvalidCheckpoint' = hashInvalidCheckpoint)]_vars

\* a grandchild of the current checkpoint has been validated and accepted
C1_Witness ==
    /\ last.op = "Validate" /\ last.ret
    /\ BothKnown(last.arg, hashSyncCheckpoint)
    /\ StrictAncestor(hashSyncCheckpoint, last.arg)
    /\ nHeight(last.arg) = nHeight(hashSyncCheckpoint) + 2

\* C2: for known blocks on divergent branches (neither an ancestor of the
\* other, equal heights included) validation returns false whichever of the
\* two is the current checkpoint, and hashInvalidCheckpoint is the candidate
\* afterwards.
C2_DivergentConflict ==
    [][(last'.op = "Validate" /\ BothKnown(last'.arg, hashSyncCheckpoint)
          /\ Divergent(last'.arg, hashSyncCheckpoint)) =>
          (~last'.ret /\ hashInvalidCheckpoint' = last'.arg)]_vars

\* a candidate higher than the current checkpoint, on another branch, has
\* been validated and recorded as invalid
C2_Witness ==
    /\ last.op = "Validate" /\ ~last.ret
    /\ BothKnown(last.arg, hashSyncCheckpoint)
    /\ Divergent(last.arg, hashSyncCheckpoint)
    /\ nHeight(last.arg) > nHeight(hashSyncCheckpoint)
    /\ hashInvalidCheckpoint = last.arg

-----------------------------------------------------------------------------
(* The checkpoint state machine.                                           *)

StoreFailed(o) == o \in {"writefail", "syncfail"}
AcceptCalls == {"AcceptPending", "BlockArrive"}

PendingKnown == hashPendingCheckpoint # NullHash /\ hashPendingCheckpoint \in mapBlockIndex

ValidSignature(m) == Verify(strMasterPubKey, m.vchMsg, m.vchSig)

\* C6: when the current checkpoint is a known H1, ProcessSyncCheckpoint of a
\* correctly signed message for a known H2 on another branch returns false
\* and changes nothing but hashInvalidCheckpoint, which becomes H2: the
\* current and pending hashes and messages and the store stay as they were.
C6_ConflictOnlySetsInvalid ==
    \A m \in WireMsgs, f \in DbOutcomes :
        LET H2 == Decode(m.vchMsg) IN
        (ValidSignature(m) /\ BothKnown(H2, hashSyncCheckpoint)
            /\ Divergent(H2, hashSyncCheckpoint)) =>
            ProcessSyncCheckpoint(State, mapBlockIndex, m, f) =
                [State EXCEPT !.hashInvalidCheckpoint = H2]

\* a checkpoint lower than the current one, on another branch, was processed
C6_Witness ==
    /\ last.op = "Process" /\ ~last.ret /\ last.store = "none"
    /\ BothKnown(last.arg, hashSyncCheckpoint)
    /\ Divergent(last.arg, hashSyncCheckpoint)
    /\ nHeight(last.arg) < nHeight(hashSyncCheckpoint)
    /\ hashInvalidCheckpoint = last.arg
    /\ ~IsNull(checkpointMessage)

\* C7: ProcessSyncCheckpoint of a message whose signature does not verify
\* against the network key returns false and changes no state; and in every
\* reachable state checkpointMessage and checkpointMessagePending are null
\* or carry a signature that verifies.
C7_BadSignatureDropped ==
    /\ \A m \in WireMsgs, f \in DbOutcomes :
          ~ValidSignature(m) => ProcessSyncCheckpoint(State, mapBlockIndex, m, f) = State
    /\ IsNull(checkpointMessage) \/ ValidSignature(checkpointMessage)
    /\ IsNull(checkpointMessagePending) \/ ValidSignature(checkpointMessagePending)

\* a message for a descendant of the current checkpoint was processed without
\* reaching the store (its signature did not verify), with signed messages held
\* as current and as pending
C7_Witness ==
    /\ last.op = "Process" /\ ~last.ret /\ last.store = "none"
    /\ BothKnown(last.arg, hashSyncCheckpoint)
    /\ StrictAncestor(hashSyncCheckpoint, last.arg)
    /\ ~IsNull(checkpointMessage) /\ ~IsNull(checkpointMessagePending)

\* the fields a call starts with: nothing returned, relayed or stored yet
Fresh(s) == [s EXCEPT !.ret = FALSE, !.relayed = NullMsg, !.store = "none"]

\* C8: when ProcessSyncCheckpoint has accepted a message, processing the
\* same message again returns false and changes nothing: the current and
\* pending hashes and messages, hashInvalidCheckpoint and the store are as the
\* first call left them.
C8_Idempotent ==
    \A m \in WireMsgs, f \in DbOutcomes :
        LET first == ProcessSyncCheckpoint(State, mapBlockIndex, m, f) IN
        first.ret =>
            \A g \in DbOutcomes :
                ProcessSyncCheckpoint(Fresh(first), mapBlockIndex, m, g) = Fresh(first)

\* the message of the current checkpoint was processed again and ignored
C8_Witness ==
    /\ last.op = "Process" /\ ~last.ret /\ last.store = "none"
    /\ last.arg = hashSyncCheckpoint
    /\ checkpointMessage =
          Unserialized(WireMsg(hashSyncCheckpoint, "master", hashSyncCheckpoint))
    /\ hashInvalidCheckpoint = NullHash

\* C9: with no checkpoint and the hardened block unknown, ResetSyncCheckpoint
\* makes the hardened hash pending (with no message) and, when the store
\* succeeds, makes the genesis hash the current and durable checkpoint; and
\* when the hardened block then becomes known while the genesis hash is still
\* current and the hardened hash still pending, AcceptPendingSyncCheckpoint
\* makes the hardened hash current, clears the pending one and returns true,
\* unless its write or commit fails.
C9_HardenedPendingThenPromoted ==
    [][/\ (last'.op = "Reset" /\ hashSyncCheckpoint = NullHash
             /\ HardenedCheckpoint \notin mapBlockIndex) =>
             /\ hashPendingCheckpoint' = HardenedCheckpoint
             /\ checkpointMessagePending' = NullMsg
             /\ last'.store = "ok" =>
                   /\ last'.ret
                   /\ hashSyncCheckpoint' = Genesis
                   /\ pblocktree'.durable.cp = Genesis
       /\ (last'.op \in AcceptCalls /\ hashSyncCheckpoint = Genesis
             /\ hashPendingCheckpoint = HardenedCheckpoint
             /\ HardenedCheckpoint \in mapBlockIndex'
             /\ ~StoreFailed(last'.store)) =>
             /\ last'.ret
             /\ hashSyncCheckpoint' = HardenedCheckpoint
             /\ hashPendingCheckpoint' = NullHash]_vars

\* the hardened block arrived and was promoted from pending, with no message
C9_Witness ==
    /\ last.op = "BlockArrive" /\ last.arg = HardenedCheckpoint /\ last.ret
    /\ hashSyncCheckpoint = HardenedCheckpoint
    /\ pblocktree.durable.cp = HardenedCheckpoint
    /\ hashPendingCheckpoint = NullHash
    /\ IsNull(checkpointMessage)

\* C10: SendSyncCheckpoint relays exactly when a master key is set, signing
\* succeeds and its own ProcessSyncCheckpoint of the signed checkpoint
\* returns true; what it relays is then that checkpoint, whose hash is the
\* hashSyncCheckpoint the call has just set; in every other case (no key,
\* signing failed, checkpoint pending, ignored, conflicting or not written)
\* it returns false and relays nothing.
C10_RelayOnlyAccepted ==
    \A h \in Blocks, signOk \in BOOLEAN, f \in DbOutcomes :
        LET r == SendSyncCheckpoint(State, mapBlockIndex, h, signOk, f)
            signed == [hashCheckpoint |-> h, vchMsg |-> Encode(h),
                       vchSig |-> Sign(strMasterPrivKey, Encode(h))]
            accepted == /\ strMasterPrivKey # ""
                        /\ signOk
                        /\ ProcessSyncCheckpoint(State, mapBlockIndex, signed, f).ret
        IN  /\ r.ret = accepted
            /\ accepted =>
                  /\ r.relayed = signed
                  /\ r.hashSyncCheckpoint = h
                  /\ hashSyncCheckpoint # h
                  /\ r.checkpointMessage = r.relayed
            /\ ~accepted => r.relayed = NullMsg

\* the master has sent a checkpoint and relayed it
C10_Witness ==
    /\ last.op = "Send" /\ last.ret
    /\ ~IsNull(relayed)
    /\ relayed.hashCheckpoint = last.arg
    /\ hashSyncCheckpoint = last.arg
    /\ strMasterPrivKey = "master"

-----------------------------------------------------------------------------
(* The lock.                                                               *)

\* C11: cs_hashSyncCheckpoint is not held while a checkpoint is relayed to
\* the peers: whenever a call (AcceptPendingSyncCheckpoint after a promotion,
\* SendSyncCheckpoint after its own acceptance) has relayed a message, it
\* had released the lock before it walked the peers.
C11_RelayWithoutLock == ~IsNull(relayed) => ~last.relayLocked

\* C12: every write to a field of the checkpoint state (the three hashes,
\* the warning, the two messages) is made with cs_hashSyncCheckpoint held,
\* in every call, SetCheckpointEnforce included.
C12_WritesUnderLock == ~last.unlockedWrite

-----------------------------------------------------------------------------
(* AutoSelectSyncCheckpoint.                                               *)

Max(a, b) == IF a >= b THEN a ELSE b
AncestorAtHeight(tip, h) ==
    CHOOSE b \in Blocks : IsAncestorOrSelf(b, tip) /\ nHeight(b) = h
TipHeight == nHeight(chainActive)
Depth == gArgs.checkpointdepth

\* C13 as stated: for every depth D >= 0 and tip height T the call returns
\* the tip's ancestor at height max(T - D, 0).
C13_AncestorAtDepth ==
    (last.op = "AutoSelect" /\ Depth >= 0) =>
        last.arg = AncestorAtHeight(chainActive, Max(TipHeight - Depth, 0))

\* C13: the call always returns a block of the active chain; for a depth
\* D >= 0 with T + D no more than the greatest int it returns the tip's
\* ancestor at height max(T - D, 0), the tip itself for D = 0.
C13_AncestorAtDepthInRange ==
    /\ AutoSelectSyncCheckpoint(gArgs, chainActive) # {}
    /\ last.op = "AutoSelect" =>
          /\ Contains(chainActive, last.arg)
          /\ (Depth >= 0 /\ TipHeight + Depth <= IntMax) =>
                last.arg = AncestorAtHeight(chainActive, Max(TipHeight - Depth, 0))
          /\ Depth = 0 => last.arg = chainActive

\* from a tip two blocks above genesis, depth 1 selected the tip's parent
C13_Witness ==
    /\ last.op = "AutoSelect"
    /\ Depth = 1 /\ TipHeight = 2
    /\ last.arg = pprev(chainActive)

-----------------------------------------------------------------------------
(* The master key and the enforcement policy.                              *)

KeyStored == pblocktree.written.key = strMasterPubKey
AcceptedByMessage ==
    ~IsNull(checkpointMessage) /\ checkpointMessage.hashCheckpoint = hashSyncCheckpoint
ResetTarget ==
    IF HardenedCheckpoint \in mapBlockIndex /\ Contains(chainActive, HardenedCheckpoint)
    THEN HardenedCheckpoint ELSE Genesis

\* C14: a CheckCheckpointPubKey call that finds the stored key missing or
\* different and stores the network key has also reset the checkpoint to
\* the hardened checkpoint (or genesis): a checkpoint accepted under the
\* previous key is never left current beside the new stored key; a call that
\* finds the key stored changes nothing.
C14_RotationResets ==
    [][last'.op = "CheckPubKey" =>
          /\ (~KeyStored /\ KeyStored' /\ AcceptedByMessage) =>
                hashSyncCheckpoint' = ResetTarget
          /\ KeyStored =>
                (last'.ret /\ UNCHANGED <<hashSyncCheckpoint, hashPendingCheckpoint,
                                          checkpointMessage, checkpointMessagePending,
                                          hashInvalidCheckpoint, pblocktree>>)]_vars

\* the node holds master key material: a key accepted by
\* SetCheckpointPrivKey, or one given with -checkpointkey
Master == strMasterPrivKey # "" \/ gArgs.checkpointkey

\* C15: IsSyncCheckpointEnforced returns true on a node that holds master
\* key material, whatever SetCheckpointEnforce last set, and returns the
\* enforcement setting on any other node.
C15_MasterSelfEnforcing ==
    last.op = "IsEnforced" =>
        /\ Master => last.ret
        /\ ~Master => last.ret = GetBoolArg(gArgs.enforcecheckpoint, TRUE)

-----------------------------------------------------------------------------
(* The current and the pending checkpoint.                                 *)

\* C16: checkpointMessage is null or is the message of the current
\* checkpoint (its hash is hashSyncCheckpoint); after a ResetSyncCheckpoint
\* that has set hashSyncCheckpoint, checkpointMessage is null.
C16_MessageIsCurrent ==
    /\ IsNull(checkpointMessage) \/ checkpointMessage.hashCheckpoint = hashSyncCheckpoint
    /\ (last.op = "Reset" /\ last.ret) => IsNull(checkpointMessage)

\* C17: ProcessSyncCheckpoint of a correctly signed message for an unknown
\* block makes it the pending checkpoint (hash and message, in place of any
\* earlier one), asks the peer for the block, leaves the current checkpoint
\* as it was and returns false.
C17_UnknownBlockPendingAndAsked ==
    \A m \in WireMsgs, f \in DbOutcomes :
        LET H == Decode(m.vchMsg)
            r == ProcessSyncCheckpoint(State, mapBlockIndex, m, f)
        IN  (ValidSignature(m) /\ H \notin mapBlockIndex) =>
                /\ r.hashPendingCheckpoint = H
                /\ r.checkpointMessagePending = Unserialized(m)
                /\ r.askFor = H
                /\ r.hashSyncCheckpoint = hashSyncCheckpoint
                /\ r.checkpointMessage = checkpointMessage
                /\ ~r.ret

\* what AcceptPendingSyncCheckpoint returns from the present state
Accepting(f) == AcceptPendingSyncCheckpoint(State, mapBlockIndex, f)

\* on return the checkpoint pending on entry is the current one
PromotedIn(r) ==
    /\ hashPendingCheckpoint # NullHash
    /\ r.hashSyncCheckpoint = hashPendingCheckpoint
    /\ r.checkpointMessage = checkpointMessagePending
    /\ r.hashPendingCheckpoint = NullHash
    /\ IsNull(r.checkpointMessagePending)

\* C18 as stated: AcceptPendingSyncCheckpoint returns true iff on return
\* the hash and message pending on entry are the current ones and nothing
\* is pending; with nothing pending, or the pending block unknown, it returns
\* false and changes nothing; with the pending block known and validation
\* failing it returns false, clears the pending fields and leaves the current
\* checkpoint as it was.
C18_TrueIffPromoted ==
    \A f \in DbOutcomes :
        LET r == Accepting(f) IN
        /\ r.ret <=> PromotedIn(r)
        /\ ~PendingKnown => r = State
        /\ (PendingKnown /\ ~ValidateSyncCheckpoint(Lock(State), mapBlockIndex,
                                                    hashPendingCheckpoint).ret) =>
              /\ ~r.ret
              /\ r.hashPendingCheckpoint = NullHash
              /\ IsNull(r.checkpointMessagePending)
              /\ r.hashSyncCheckpoint = hashSyncCheckpoint
              /\ r.checkpointMessage = checkpointMessage

\* C19: a ResetSyncCheckpoint that returns true has made current the
\* hardened hash when its block is known and on the active chain, and the
\* genesis hash otherwise (block unknown, or known and off the active chain);
\* it makes the hardened hash pending, with a null pending message, when the
\* block is unknown, and leaves the pending hash and message as they were
\* when it is known.
C19_ResetTarget ==
    [][(last'.op = "Reset" /\ last'.ret) =>
          /\ hashSyncCheckpoint' = ResetTarget
          /\ pblocktree'.durable.cp = ResetTarget
          /\ HardenedCheckpoint \notin mapBlockIndex =>
                (hashPendingCheckpoint' = HardenedCheckpoint
                    /\ checkpointMessagePending' = NullMsg)
          /\ HardenedCheckpoint \in mapBlockIndex =>
                UNCHANGED <<hashPendingCheckpoint, checkpointMessagePending>>]_vars

\* a reset with the hardened block known and off the active chain, after a
\* checkpoint on the active chain had been accepted: genesis is current
C19_Witness ==
    /\ last.op = "Reset" /\ last.ret
    /\ HardenedCheckpoint \in mapBlockIndex
    /\ ~Contains(chainActive, HardenedCheckpoint)
    /\ hashSyncCheckpoint = Genesis
    /\ ~IsNull(checkpointMessage)
    /\ hashPendingCheckpoint = NullHash

\* C20: after a ResetSyncCheckpoint call no checkpoint received before it
\* is pending: the pending hash is null or the hardened hash.
C20_ResetSupersedesPending ==
    [][last'.op = "Reset" =>
          hashPendingCheckpoint' \in {NullHash, HardenedCheckpoint}]_vars

-----------------------------------------------------------------------------
(* The checkpoint moves forward.                                           *)

ResetCalls == {"Reset", "CheckPubKey"}
\* ProcessSyncCheckpoint, called with a peer's message or by SendSyncCheckpoint
ProcessCalls == {"Process", "Send"}

\* C21: a step of ProcessSyncCheckpoint or AcceptPendingSyncCheckpoint (on
\* its own or at a block's arrival) that changes hashSyncCheckpoint sets it
\* to a known block, strictly higher, of which the previous checkpoint is an
\* ancestor; such a call that returns true has accepted a strict descendant
\* of the previous checkpoint; and a step that moves the checkpoint any
\* other way is a ResetSyncCheckpoint (called directly or by
\* CheckCheckpointPubKey).
C21_ForwardOnly ==
    [][/\ (last'.op \notin ResetCalls /\ hashSyncCheckpoint' # hashSyncCheckpoint) =>
             /\ last'.op \in ProcessCalls \cup AcceptCalls
             /\ hashSyncCheckpoint # NullHash
             /\ hashSyncCheckpoint' \in mapBlockIndex'
             /\ nHeight(hashSyncCheckpoint') > nHeight(hashSyncCheckpoint)
             /\ StrictAncestor(hashSyncCheckpoint, hashSyncCheckpoint')
       /\ (last'.op \in ProcessCalls \cup AcceptCalls /\ last'.ret) =>
             /\ hashSyncCheckpoint # NullHash
             /\ StrictAncestor(hashSyncCheckpoint, hashSyncCheckpoint')]_vars

\* a pending checkpoint two blocks above genesis was promoted when its block
\* arrived, after a checkpoint on the other branch had been rejected
C21_Witness ==
    /\ last.op = "BlockArrive" /\ last.ret
    /\ hashSyncCheckpoint = last.arg
    /\ nHeight(hashSyncCheckpoint) = 2
    /\ ~IsNull(checkpointMessage)
    /\ hashInvalidCheckpoint # NullHash
    /\ Divergent(hashInvalidCheckpoint, hashSyncCheckpoint)

====
